---- MODULE Spec2Model ----
(***************************************************************************)
(* Face tracking registry of inaFaceGender (face_tracking.py): the Tracker *)
(* wrapper around dlib.correlation_tracker, the TrackerList registry and   *)
(* the TrackerDetector scheduler, driven by a harness that may call        *)
(* td(frame), td.tl.update(frame) and td.tl.ingest_detection(frame, lbox)  *)
(* in any order.  A Python exception ends the call that raised it; the     *)
(* objects stay as the call left them and may be called again.             *)
(*                                                                         *)
(* Coordinates.  A detection box is a dlib.rectangle (integer pixels).  A  *)
(* tracker position is a dlib.drectangle (real-valued); it is kept here in *)
(* half pixels, so the position 1.5 is the integer 3.  dlib rectangles are *)
(* inclusive: width = right - left + 1, and a rectangle with right < left  *)
(* or bottom < top is empty and has area 0.  Areas of positions are kept   *)
(* in quarter square pixels.                                               *)
(***************************************************************************)
EXTENDS Integers, Sequences, FiniteSets, TLC

\* ------------------------------------------------------------------ bounds
\* cap on the id counter TrackerList.i (the code has none)
MaxI == 3
\* longest list of detections handed to ingest_detection
MaxDet == 2
\* cap on the frame counter TrackerDetector.iframe (the code has none)
MaxIframe == 3
\* largest coordinate of the boxes Tracker.iou is evaluated on
MaxCoord == 2
\* frames of the videos the pipelines are run on
MaxFrames == 3

\* FaceAnalyzer.batch_len (inaFaceGender.py line 44)
batch_len == 32

\* ------------------------------------------------------------ input domains
\* frames are opaque handles, compared by `!=` only
Frames == {"fA", "fB"}

\* frame.shape as (height, width); every frame of a video has the same shape
frame_shape == <<8, 8>>

Rect(l, t, r, b) == [left |-> l, top |-> t, right |-> r, bottom |-> b]

\* boxes the face detector may return (pixels)
BoxA == Rect(0, 0, 3, 3)
BoxB == Rect(0, 0, 3, 2)
BoxC == Rect(1, 0, 3, 3)
BoxD == Rect(5, 5, 7, 7)
DetBoxes == {BoxA, BoxB, BoxC, BoxD}

\* positions dlib's t.update(frame) may move a tracker to (half pixels):
\* BoxA itself, a fractional position (0.5, 0.5, 3.5, 3.5), and a box that
\* lies entirely left of and above the frame
PosIn == Rect(0, 0, 6, 6)
PosFrac == Rect(1, 1, 7, 7)
PosOut == Rect(-8, -8, -2, -2)
Positions == {PosIn, PosFrac, PosOut}

\* values dlib's t.update(frame) may return (peak to side-lobe ratio)
Quals == {6, 7, 9}
\* values dlib's t.update(frame, bb) may return
Scores == {7, 8, 9}

DetectionLists == UNION {[1..n -> DetBoxes] : n \in 0..MaxDet}

\* detection_period values the harness constructs TrackerDetector with
Periods == {1, 3}

\* ------------------------------------------------------------------- state
VARIABLES
    d,          \* TrackerList.d: insertion-ordered dict, a sequence of trackers
    i,          \* TrackerList.i: next id
    iframe,     \* TrackerDetector.iframe
    detection_period,   \* TrackerDetector.detection_period
    lret,       \* what the last td(frame) returned: <<>> none, <<list>> a list
    raised,     \* exception the last call ended with, "none" if it returned
    lastOp,     \* history: the last call, its arguments, iframe when it began
                \* and whether it ran the detector
    d0,         \* history: TrackerList.d when the last call began
    log,        \* history: per-track / per-detection record of the last call
    spawned,    \* history: ids given to new trackers, in order
    retired,    \* history: ids that were live once and left TrackerList.d
    pf,         \* Tracker.iou applied to one pair of boxes (specification SpecIou)
    pl          \* one run of a video pipeline of inaFaceGender.py (SpecVideo)

vars == <<d, i, iframe, detection_period, lret, raised, lastOp, d0, log,
          spawned, retired, pf, pl>>

\* ------------------------------------------------------ Python name lookup
\* names bound at module level of face_tracking.py
ModuleNames == {"dlib", "np", "Tracker", "TrackerList", "TrackerDetector"}

\* a bare name resolves if it is a local of the function or a module global
\* (no builtin is called frame or tl)
NameBound(name, locals) == name \in locals \cup ModuleNames

\* attributes TrackerDetector.__init__ sets on self
DetectorAttrs == {"detector", "detection_period", "tl", "iframe"}

\* ----------------------------------------------------------------- dlib
\* rectangle.is_empty / drectangle.is_empty
IsEmpty(r) == r.top > r.bottom \/ r.left > r.right

\* dlib.rectangle.area(), square pixels
RectArea(r) == IF IsEmpty(r) THEN 0
               ELSE (r.right - r.left + 1) * (r.bottom - r.top + 1)

\* dlib.drectangle.area() of a half-pixel position, quarter square pixels
PosArea4(p) == IF IsEmpty(p) THEN 0
               ELSE (p.right - p.left + 2) * (p.bottom - p.top + 2)

Max(a, b) == IF a >= b THEN a ELSE b
Min(a, b) == IF a <= b THEN a ELSE b

\* dlib.rectangle.intersect
Intersect(a, b) == Rect(Max(a.left, b.left), Max(a.top, b.top),
                        Min(a.right, b.right), Min(a.bottom, b.bottom))

\* Python int() of a half-pixel coordinate: truncation toward zero
PyInt(x2) == IF x2 >= 0 THEN x2 \div 2 ELSE -((-x2) \div 2)

\* the drectangle start_track(frame, bb) leaves as the position
ToPos(bb) == Rect(2 * bb.left, 2 * bb.top, 2 * bb.right, 2 * bb.bottom)

\* ---------------------------------------------------------------- Tracker
\* Tracker.__init__(frame, bb, tid); update_val is not set by the constructor:
\* <<>> is the missing attribute, <<q>> the attribute holding q
NewTracker(frame, bb, tid) ==
    [tid |-> tid, pos |-> ToPos(bb), last_frame |-> frame, update_val |-> <<>>]

\* Tracker.intersect_area(bb), square pixels
intersect_area(pos, bb) ==
    LET tmp == Rect(PyInt(pos.left), PyInt(pos.top), PyInt(pos.right), PyInt(pos.bottom))
    IN  RectArea(Intersect(bb, tmp))

\* Tracker.iou(bb) as the fraction num/den, both in quarter square pixels;
\* a zero denominator is Python's ZeroDivisionError
iou(pos, bb) ==
    LET inter == intersect_area(pos, bb)
        den == 4 * inter + PosArea4(pos) + 4 * RectArea(bb)
    IN  [raised |-> IF den = 0 THEN "ZeroDivisionError" ELSE "none",
         num |-> 4 * inter, den |-> den]

\* line 89 with the IoU gate left out: every pool tracker is probed
AboveHalf_always(r) == TRUE

\* `iou(bb) > 0.5`
AboveHalf(r) == 2 * r.num > r.den

\* Tracker.update(frame): the outcomes, one per value and position dlib may
\* return; reading self.update_val before any assignment is AttributeError;
\* called tells whether dlib's t.update(frame) was invoked
TrackerUpdate(tr, frame) ==
    IF frame # tr.last_frame
    THEN {[raised |-> "none", ret |-> q, called |-> TRUE,
           t |-> [tr EXCEPT !.update_val = <<q>>, !.pos = p, !.last_frame = frame]]
          : q \in Quals, p \in Positions}
    ELSE IF tr.update_val = <<>>
         THEN {[raised |-> "AttributeError", ret |-> 0, called |-> FALSE, t |-> tr]}
         ELSE {[raised |-> "none", ret |-> tr.update_val[1], called |-> FALSE,
                t |-> tr]}

\* Tracker.tracking_quality(frame, bb): the outcomes, one per value dlib's
\* update(frame, bb) may return; start_track rebinds the position to bb
tracking_quality(tr, frame, bb) ==
    {[ret |-> s, t |-> [tr EXCEPT !.pos = ToPos(bb)]] : s \in Scores}

\* Tracker.is_in_frame(frame_shape): line 61 reads the name `frame`, which is
\* neither a local (self, frame_shape) nor a module global
is_in_frame(pos, shape) ==
    IF ~NameBound("frame", {"self", "frame_shape"})
    THEN [raised |-> "NameError", ret |-> FALSE]
    ELSE LET fheight == shape[1]
             fwidth == shape[2]
         IN  [raised |-> "none",
              ret |-> (pos.right > 0) /\ (pos.left < 2 * fwidth)
                      /\ (pos.top < 2 * fheight) /\ (pos.bottom > 0)]

\* ------------------------------------------------------------ dict helpers
\* list(self.d): the keys in insertion order
Keys(dd) == [k \in 1..Len(dd) |-> dd[k].tid]
KeySet(dd) == {dd[k].tid : k \in 1..Len(dd)}

\* self.d[fid]
DictGet(dd, fid) == dd[CHOOSE k \in 1..Len(dd) : dd[k].tid = fid]

\* del self.d[fid]
DictDel(dd, fid) == SelectSeq(dd, LAMBDA t : t.tid # fid)

\* the store always adding an entry
DictSet_append(dd, t) == Append(dd, t)

\* self.d[t.tid] = t: in place if the key exists, appended otherwise
DictSet(dd, t) ==
    IF t.tid \in KeySet(dd)
    THEN [k \in 1..Len(dd) |-> IF dd[k].tid = t.tid THEN t ELSE dd[k]]
    ELSE Append(dd, t)

\* ------------------------------------------------------------ TrackerList
\* TrackerList.update(frame), lines 75-77, from the keys `todo` of list(self.d)
\* still to visit: the set of outcomes [d, raised, log].  log gets one entry
\* per tracker whose update(frame) returned: its id, the quality, the
\* position, whether dlib was invoked and whether the loop kept it.
\* history: the ids an update log records as deleted
Dropped(lg) == {lg[k].tid : k \in {m \in 1..Len(lg) : ~lg[m].kept}}

RECURSIVE UpdateFrom(_, _, _, _)
UpdateFrom(todo, dd, frame, lg) ==
    IF todo = <<>>
    THEN {[d |-> dd, raised |-> "none", log |-> lg, gone |-> Dropped(lg)]}
    ELSE LET fid == Head(todo)
             One(u) ==
                 IF u.raised # "none"
                 THEN {[d |-> dd, raised |-> u.raised, log |-> lg, gone |-> Dropped(lg)]}
                 ELSE IF u.ret < 7
                 THEN UpdateFrom(Tail(todo), DictDel(dd, fid), frame,
                                 Append(lg, [tid |-> fid, q |-> u.ret, pos |-> u.t.pos,
                                             called |-> u.called, kept |-> FALSE]))
                 ELSE LET inf == is_in_frame(u.t.pos, frame_shape)
                      IN  IF inf.raised # "none"
                          THEN {[d |-> DictSet(dd, u.t), raised |-> inf.raised,
                                 log |-> Append(lg, [tid |-> fid, q |-> u.ret,
                                                     pos |-> u.t.pos,
                                                     called |-> u.called,
                                                     kept |-> TRUE]),
                                 gone |-> Dropped(lg)]}
                          ELSE IF ~inf.ret
                          THEN UpdateFrom(Tail(todo), DictDel(dd, fid), frame,
                                          Append(lg, [tid |-> fid, q |-> u.ret,
                                                      pos |-> u.t.pos,
                                                      called |-> u.called,
                                                      kept |-> FALSE]))
                          ELSE UpdateFrom(Tail(todo), DictSet(dd, u.t), frame,
                                          Append(lg, [tid |-> fid, q |-> u.ret,
                                                      pos |-> u.t.pos,
                                                      called |-> u.called,
                                                      kept |-> TRUE]))
         IN  UNION {One(u) : u \in TrackerUpdate(DictGet(dd, fid), frame)}

TL_update(dd, frame) == UpdateFrom(Keys(dd), dd, frame, <<>>)

\* np.argmax: the first index holding the maximum
Argmax(s) == CHOOSE k \in 1..Len(s) :
                 /\ \A m \in 1..Len(s) : s[m] <= s[k]
                 /\ \A m \in 1..(k - 1) : s[m] < s[k]

\* list.remove(x): drops the first occurrence
ListRemove(s, x) ==
    LET k == CHOOSE m \in 1..Len(s) : s[m] = x /\ \A n \in 1..(m - 1) : s[n] # x
    IN  [m \in 1..(Len(s) - 1) |-> IF m < k THEN s[m] ELSE s[m + 1]]

\* line 99 with the increment left out
NextId_stuck(ii) == ii

\* line 99 with a counter that wraps around
NextId_wrap(ii) == (ii + 1) % 2

\* dict.update(to_add) in place of the assignment
Commit_merge(dd, to_add) ==
    SelectSeq(dd, LAMBDA t : t.tid \notin KeySet(to_add)) \o to_add

\* line 100 left out: the registry keeps its old dict
Commit_keep(dd, to_add) == dd

\* line 99 adding 2
NextId_skip(ii) == ii + 2

\* line 91: `rmscore[am] > 7`
Accepts(score) == score > 7

\* line 99: `self.i += 1`
NextId(ii) == ii + 1

\* line 100: `self.d = to_add`
Commit(dd, to_add) == to_add

\* line 89, the list comprehension over to_remove from the keys `ks` still to
\* visit: the set of outcomes [raised, scores, probed, d].  A tracker whose iou
\* with bb is above 0.5 is probed (and rebound to bb) and scores what the
\* probe returns; any other scores 0.
RECURSIVE Rmscore(_, _, _, _, _, _)
Rmscore(ks, dd, frame, bb, sc, pr) ==
    IF ks = <<>>
    THEN {[raised |-> "none", scores |-> sc, probed |-> pr, d |-> dd]}
    ELSE LET k == Head(ks)
             tr == DictGet(dd, k)
             r == iou(tr.pos, bb)
         IN  IF r.raised # "none"
             THEN {[raised |-> r.raised, scores |-> sc, probed |-> pr, d |-> dd]}
             ELSE IF AboveHalf(r)
             THEN UNION {Rmscore(Tail(ks), DictSet(dd, q.t), frame, bb,
                                 Append(sc, q.ret), Append(pr, k))
                         : q \in tracking_quality(tr, frame, bb)}
             ELSE Rmscore(Tail(ks), dd, frame, bb, Append(sc, 0), pr)

\* lines 89-99 for one detection bb, on the pass state
\* st = [d, to_remove, to_add, i, raised, log, spawned]: the set of next pass
\* states.  log gets one entry per detection: the box, the pool and the
\* trackers of self.d when it was evaluated (before) and when line 89 was
\* done (after), the scores, the trackers probed, and whether it matched a
\* tracker or spawned one, under which id.
StepDet(st, frame, bb) ==
    LET One(r) ==
            IF r.raised # "none"
            THEN [st EXCEPT !.d = r.d, !.raised = r.raised]
            ELSE LET am == IF Len(r.scores) > 0 THEN Argmax(r.scores) ELSE 0
                     base == [bb |-> bb, pool |-> st.to_remove, before |-> st.d,
                              after |-> r.d, rmscore |-> r.scores,
                              probed |-> r.probed, i0 |-> st.i]
                 IN  IF am # 0 /\ Accepts(r.scores[am])
                     THEN LET idrm == st.to_remove[am]
                          IN  [st EXCEPT
                                 !.d = r.d,
                                 !.to_remove = ListRemove(st.to_remove, idrm),
                                 !.to_add = DictSet(st.to_add, NewTracker(frame, bb, idrm)),
                                 !.log = Append(st.log,
                                     base @@ [kind |-> "match", id |-> idrm])]
                     ELSE [st EXCEPT
                             !.d = r.d,
                             !.to_add = DictSet(st.to_add, NewTracker(frame, bb, st.i)),
                             !.i = NextId(st.i),
                             !.spawned = Append(st.spawned, st.i),
                             !.log = Append(st.log,
                                 base @@ [kind |-> "spawn", id |-> st.i])]
    IN  {One(r) : r \in Rmscore(st.to_remove, st.d, frame, bb, <<>>, <<>>)}

\* the loop of line 88 from detection j on
RECURSIVE Pass(_, _, _, _)
Pass(st, frame, lbox, j) ==
    IF st.raised # "none" \/ j > Len(lbox)
    THEN {st}
    ELSE UNION {Pass(s2, frame, lbox, j + 1) : s2 \in StepDet(st, frame, lbox[j])}

\* history: the ids an ingest log records as matched / as spawned
Matched(lg) == {lg[k].id : k \in {m \in 1..Len(lg) : lg[m].kind = "match"}}
Spawns(lg) == {lg[k].id : k \in {m \in 1..Len(lg) : lg[m].kind = "spawn"}}

\* TrackerList.ingest_detection(frame, lbox): the set of outcomes
\* [d, i, raised, log, spawned, gone]
TL_ingest(dd, ii, frame, lbox) ==
    LET st0 == [d |-> dd, to_remove |-> Keys(dd), to_add |-> <<>>, i |-> ii,
                raised |-> "none", log |-> <<>>, spawned |-> <<>>]
    IN  {[d |-> IF st.raised = "none" THEN Commit(st.d, st.to_add) ELSE st.d,
          i |-> st.i, raised |-> st.raised, log |-> st.log, spawned |-> st.spawned,
          gone |-> IF st.raised = "none" THEN KeySet(dd) \ Matched(st.log) ELSE {}]
         : st \in Pass(st0, frame, lbox, 1)}

\* --------------------------------------------------------- TrackerDetector
\* lines 122-126: one (box, faceid) pair per key of tl.d, in dict order
Emit(dd) == [k \in 1..Len(dd) |-> [bb |-> dd[k].pos, faceid |-> dd[k].tid]]

\* TrackerDetector.__call__(frame): the set of outcomes
\* [d, i, iframe, lret, raised, log, spawned, gone, detected, steps].  Line 114
\* reads the bare name `tl` (the registry is self.tl) and line 118 the
\* attribute self.face_detector (the constructor sets self.detector).  steps
\* lists, in order, the steps of the body that were entered: "update" (line
\* 114), "detect" (line 118), "ingest" (line 119), "emit" (lines 122-126),
\* "count" (line 128).
Call(dd, ii, ifr, period, frame) ==
    LET Fail(d1, i1, lg, sp, gn, err, det, sts) ==
            [d |-> d1, i |-> i1, iframe |-> ifr, lret |-> <<>>, raised |-> err,
             log |-> lg, spawned |-> sp, gone |-> gn, detected |-> det,
             steps |-> sts]
        Done(d1, i1, lg, sp, gn, det, sts) ==
            [d |-> d1, i |-> i1, iframe |-> ifr + 1, lret |-> <<Emit(d1)>>,
             raised |-> "none", log |-> lg, spawned |-> sp, gone |-> gn,
             detected |-> det, steps |-> sts \o <<"emit", "count">>]
        AfterUpdate(u) ==
            IF u.raised # "none"
            THEN {Fail(u.d, ii, u.log, <<>>, u.gone, u.raised, FALSE, <<"update">>)}
            ELSE IF ifr % period # 0
            THEN IF "face_detector" \notin DetectorAttrs
                 THEN {Fail(u.d, ii, u.log, <<>>, u.gone, "AttributeError", FALSE,
                            <<"update">>)}
                 ELSE UNION {{IF g.raised # "none"
                              THEN Fail(g.d, g.i, g.log, g.spawned, u.gone \cup g.gone,
                                        g.raised, TRUE, <<"update", "detect", "ingest">>)
                              ELSE Done(g.d, g.i, g.log, g.spawned, u.gone \cup g.gone,
                                        TRUE, <<"update", "detect", "ingest">>)
                              : g \in TL_ingest(u.d, ii, frame, lbox)}
                             : lbox \in {l \in DetectionLists : ii + Len(l) <= MaxI}}
            ELSE {Done(u.d, ii, u.log, <<>>, u.gone, FALSE, <<"update">>)}
    IN  IF ~NameBound("tl", {"self", "frame"})
        THEN {Fail(dd, ii, <<>>, <<>>, {}, "NameError", FALSE, <<>>)}
        ELSE UNION {AfterUpdate(u) : u \in TL_update(dd, frame)}

\* ----------------------------------------------------------------- actions
\* no iou evaluation under way
NoProbe == [a |-> Rect(0, 0, 0, 0), b |-> Rect(0, 0, 0, 0), done |-> FALSE,
            ab |-> [raised |-> "none", num |-> 0, den |-> 1],
            ba |-> [raised |-> "none", num |-> 0, den |-> 1]]

\* no pipeline run under way
NoPipeline == [kind |-> "none", pc |-> "idle", nframes |-> 0, lbatch_img |-> <<>>,
               linfo |-> <<>>, batches |-> <<>>, raised |-> "none"]

\* TrackerDetector(detector, detection_period): an empty registry, counter 0
InitTracking ==
    /\ d = <<>>
    /\ i = 0
    /\ iframe = 0
    /\ detection_period \in Periods
    /\ lret = <<>>
    /\ raised = "none"
    /\ lastOp = [op |-> "init", frame |-> "fA", lbox |-> <<>>, k |-> 0,
                 detected |-> FALSE, steps |-> <<>>]
    /\ d0 = <<>>
    /\ log = <<>>
    /\ spawned = <<>>
    /\ retired = {}

Init ==
    /\ InitTracking
    /\ pf = NoProbe
    /\ pl = NoPipeline

\* the harness calls td.tl.update(frame)
DoUpdate ==
    \E frame \in Frames : \E o \in TL_update(d, frame) :
        /\ d' = o.d
        /\ raised' = o.raised
        /\ log' = o.log
        /\ lastOp' = [op |-> "update", frame |-> frame, lbox |-> <<>>, k |-> iframe,
                      detected |-> FALSE, steps |-> <<>>]
        /\ d0' = d
        /\ retired' = retired \cup o.gone
        /\ UNCHANGED <<i, iframe, detection_period, lret, spawned, pf, pl>>

\* the harness calls td.tl.ingest_detection(frame, lbox)
DoIngest ==
    \E frame \in Frames : \E lbox \in DetectionLists :
        /\ i + Len(lbox) <= MaxI
        /\ \E o \in TL_ingest(d, i, frame, lbox) :
            /\ d' = o.d
            /\ i' = o.i
            /\ raised' = o.raised
            /\ log' = o.log
            /\ lastOp' = [op |-> "ingest", frame |-> frame, lbox |-> lbox,
                          k |-> iframe, detected |-> FALSE, steps |-> <<>>]
            /\ d0' = d
            /\ spawned' = spawned \o o.spawned
            /\ retired' = retired \cup o.gone
            /\ UNCHANGED <<iframe, detection_period, lret, pf, pl>>

\* the harness calls td(frame)
DoCall ==
    /\ iframe < MaxIframe
    /\ \E frame \in Frames : \E o \in Call(d, i, iframe, detection_period, frame) :
        /\ d' = o.d
        /\ i' = o.i
        /\ iframe' = o.iframe
        /\ lret' = o.lret
        /\ raised' = o.raised
        /\ log' = o.log
        /\ lastOp' = [op |-> "call", frame |-> frame, lbox |-> <<>>, k |-> iframe,
                      detected |-> o.detected, steps |-> o.steps]
        /\ d0' = d
        /\ spawned' = spawned \o o.spawned
        /\ retired' = retired \cup o.gone
        /\ UNCHANGED <<detection_period, pf, pl>>

Next == DoUpdate \/ DoIngest \/ DoCall

Spec == Init /\ [][Next]_vars

\* ------------------------------------------------- Tracker.iou on its own
\* boxes with every coordinate in 0..MaxCoord, the empty ones (right < left
\* or bottom < top) included
IouBoxes == {Rect(l, t, r, b) : l \in 0..MaxCoord, t \in 0..MaxCoord,
                                r \in 0..MaxCoord, b \in 0..MaxCoord}

tvars == <<d, i, iframe, detection_period, lret, raised, lastOp, d0, log,
           spawned, retired>>

InitIou ==
    /\ InitTracking
    /\ pl = NoPipeline
    /\ \E a \in IouBoxes, b \in IouBoxes : pf = [NoProbe EXCEPT !.a = a, !.b = b]

\* Tracker(frame, a, 0).iou(b) and Tracker(frame, b, 0).iou(a)
ApplyIou ==
    /\ ~pf.done
    /\ pf' = [pf EXCEPT !.done = TRUE,
                        !.ab = iou(NewTracker("fA", pf.a, 0).pos, pf.b),
                        !.ba = iou(NewTracker("fA", pf.b, 0).pos, pf.a)]
    /\ UNCHANGED <<tvars, pl>>

NextIou == ApplyIou

SpecIou == InitIou /\ [][NextIou]_vars

\* ------------------------------------------------- the video pipelines
\* GenderVideo.__call__ (inaFaceGender.py lines 156-206) and
\* GenderTracking.__call__ (lines 238-288).  A face image is the rank at which
\* it was appended to lbatch_img: 1, 2, ...; linfo holds, per record, the frame
\* number; batches lists the arguments of the classifier calls, i.e. what ldf
\* was built from.
Pipelines == {"GenderVideo", "GenderTracking"}

\* numbers of faces the detector may report on one frame
FaceCounts == {0, 1, 16, 33}

\* the n images appended after `have` earlier ones
NewImages(have, n) == [k \in 1..n |-> have + k]

\* line 195 dropping one image too many
Rest_skip(lb) == SubSeq(lb, batch_len + 2, Len(lb))

\* line 195: lbatch_img[self.batch_len:]
Rest(lb) == SubSeq(lb, batch_len + 1, Len(lb))

\* lines 192-195: while len(lbatch_img) > self.batch_len, classify the first
\* batch_len images and keep the rest
RECURSIVE Drain(_, _)
Drain(lb, bs) ==
    IF Len(lb) > batch_len
    THEN Drain(Rest(lb), Append(bs, SubSeq(lb, 1, batch_len)))
    ELSE [lbatch_img |-> lb, batches |-> bs]

\* lines 182-195 for a frame on which n detections were iterated
FrameBody(p, n) ==
    LET dr == Drain(p.lbatch_img \o NewImages(Len(p.linfo), n), p.batches)
    IN  [p EXCEPT !.nframes = @ + 1,
                  !.linfo = @ \o [k \in 1..n |-> p.nframes],
                  !.lbatch_img = dr.lbatch_img,
                  !.batches = dr.batches]

InitVideo ==
    /\ InitTracking
    /\ pf = NoProbe
    /\ \E kind \in Pipelines : pl = [NoPipeline EXCEPT !.kind = kind, !.pc = "loop"]

\* GenderVideo, one turn of the frame loop (lines 180-195); detector is
\* self.face_detector
VideoFrame ==
    /\ pl.kind = "GenderVideo"
    /\ pl.pc = "loop"
    /\ pl.nframes < MaxFrames
    /\ \E n \in FaceCounts : pl' = FrameBody(pl, n)
    /\ UNCHANGED <<tvars, pf>>

\* GenderTracking, one turn of the frame loop (lines 263-277); detector is the
\* TrackerDetector of line 253, whose __call__ is Call.  What it returns are
\* (box, id) tuples, and line 271 reads detection.face_id.
TrackingFrame ==
    /\ pl.kind = "GenderTracking"
    /\ pl.pc = "loop"
    /\ pl.nframes < MaxFrames
    /\ \E frame \in Frames : \E o \in Call(d, i, iframe, detection_period, frame) :
        /\ d' = o.d
        /\ i' = o.i
        /\ iframe' = o.iframe
        /\ pl' = IF o.raised # "none"
                 THEN [pl EXCEPT !.pc = "raised", !.raised = o.raised]
                 ELSE IF Len(o.lret[1]) > 0
                 THEN [pl EXCEPT !.pc = "raised", !.raised = "AttributeError"]
                 ELSE FrameBody(pl, 0)
    /\ UNCHANGED <<detection_period, lret, raised, lastOp, d0, log, spawned,
                   retired, pf>>

\* the video is over: lines 197-199 (GenderVideo), 279-281 (GenderTracking)
Flush ==
    /\ pl.pc = "loop"
    /\ pl' = [pl EXCEPT !.pc = "done",
                        !.batches = IF Len(pl.lbatch_img) > 0
                                    THEN Append(@, pl.lbatch_img) ELSE @]
    /\ UNCHANGED <<tvars, pf>>

NextVideo == VideoFrame \/ TrackingFrame \/ Flush

SpecVideo == InitVideo /\ [][NextVideo]_vars

\* ------------------------------------------------------------------ claims
\* the frame rectangle test of the specification, on a half-pixel position:
\* the box lies entirely past one edge of the frame
OutsideFrame(pos) ==
    \/ pos.right <= 0
    \/ pos.left >= 2 * frame_shape[2]
    \/ pos.bottom <= 0
    \/ pos.top >= 2 * frame_shape[1]

\* the last call was given a frame that no live tracker had seen
FreshFrame == \A k \in 1..Len(d0) : d0[k].last_frame # lastOp.frame

\* intersection over union above one half, as the specification defines IoU:
\* intersection / (areaA + areaB - intersection) > 1/2
IoUAboveHalf(pos, bb) ==
    3 * 4 * intersect_area(pos, bb) > PosArea4(pos) + 4 * RectArea(bb)

\* C1: over any sequence of update and ingest_detection calls from an empty
\* registry, no two live trackers share an id, every live id was handed out
\* by a spawn, and the ids handed out by spawns are strictly increasing.
C1_IdsUniqueIncreasing ==
    /\ \A a, b \in 1..Len(d) : a # b => d[a].tid # d[b].tid
    /\ \A a \in 1..Len(d) : \E b \in 1..Len(spawned) : spawned[b] = d[a].tid
    /\ \A a, b \in 1..Len(spawned) : a < b => spawned[a] < spawned[b]

\* C1 witness: three ids were spawned over at least two passes, one of them
\* has left the registry and two are live
C1_Witness ==
    /\ Len(spawned) = 3
    /\ Len(d) = 2
    /\ retired # {}
    /\ lastOp.op = "ingest"

\* C2: when ingest_detection returns, the live ids are exactly the ids matched
\* in this pass together with the ids spawned in it, and every tracker that
\* was live before and was matched by no detection is gone.
C2_ReconcileDestructive ==
    (lastOp.op = "ingest" /\ raised = "none") =>
        /\ KeySet(d) = Matched(log) \cup Spawns(log)
        /\ \A id \in KeySet(d0) \ Matched(log) : id \notin KeySet(d)

\* C2 witness: a tracker that the preceding update left live with quality 9
\* and a position inside the frame is gone after a pass that spawned a tracker
C2_Witness ==
    /\ lastOp.op = "ingest"
    /\ raised = "none"
    /\ Len(d) >= 1
    /\ \E k \in 1..Len(d0) :
        /\ d0[k].update_val = <<9>>
        /\ d0[k].pos = PosIn
        /\ d0[k].tid \notin KeySet(d)

\* a detection of the last pass had no intersection with any tracker of
\* self.d when it was evaluated
ZeroIoU(e) == \A k \in 1..Len(e.before) : intersect_area(e.before[k].pos, e.bb) = 0

\* C5: a detection whose IoU with every live tracker is zero spawns a tracker
\* whose id is the counter's value at that moment, an id no tracker had
\* before, whether or not trackers remain in the pool.
C5_SpawnOnNoMatch ==
    lastOp.op = "ingest" =>
        \A j \in 1..Len(log) :
            ZeroIoU(log[j]) =>
                /\ log[j].kind = "spawn"
                /\ log[j].id = log[j].i0
                /\ log[j].id \notin KeySet(d0) \cup retired
                /\ Cardinality({b \in 1..Len(spawned) : spawned[b] = log[j].id}) = 1

\* C5 witness: a detection disjoint from two live trackers, both still in the
\* pool, spawned a tracker
C5_Witness ==
    /\ lastOp.op = "ingest"
    /\ raised = "none"
    /\ \E j \in 1..Len(log) :
        /\ ZeroIoU(log[j])
        /\ Len(log[j].pool) = 2
        /\ log[j].kind = "spawn"

\* C10: an id that has left the live set is never live again.
C10_NoIdReuse == retired \cap KeySet(d) = {}

\* C10 witness: id 0 was retired and a later detection at the position where
\* id 0 was created is live under another id
C10_Witness ==
    /\ 0 \in retired
    /\ \E k \in 1..Len(d) : d[k].pos = ToPos(BoxA) /\ d[k].tid # 0
    /\ \E k \in 1..Len(d0) : d0[k].tid = 0 /\ d0[k].pos = ToPos(BoxA)

\* the scores the probe returned for one detection of the last pass
ProbeScores(e) ==
    {e.rmscore[k] : k \in {m \in 1..Len(e.pool) :
                              \E n \in 1..Len(e.probed) : e.probed[n] = e.pool[m]}}

\* C3: two different detections bb1, bb2 both overlap the only live tracker
\* above 0.5 IoU and the probe answers 9 for bb1 and 8 for bb2 whenever it is
\* asked: bb1 keeps the tracker's id and bb2 gets a fresh one.
C3_GreedyFirstClaims ==
    (/\ lastOp.op = "ingest"
     /\ Len(d0) = 1
     /\ Len(lastOp.lbox) = 2
     /\ lastOp.lbox[1] # lastOp.lbox[2]
     /\ IoUAboveHalf(d0[1].pos, lastOp.lbox[1])
     /\ IoUAboveHalf(d0[1].pos, lastOp.lbox[2])
     /\ Len(log) = 2
     /\ ProbeScores(log[1]) \subseteq {9}
     /\ ProbeScores(log[2]) \subseteq {8})
    =>
        /\ raised = "none"
        /\ log[1].kind = "match"
        /\ log[2].kind = "spawn"
        /\ Len(d) = 2
        /\ d[1].tid = d0[1].tid
        /\ d[1].pos = ToPos(lastOp.lbox[1])
        /\ d[2].tid = log[2].i0
        /\ d[2].tid \notin KeySet(d0) \cup retired
        /\ d[2].pos = ToPos(lastOp.lbox[2])

\* C4: the first detection of a pass has IoU above 0.5 with exactly one live
\* tracker and the probe answers above 7 whenever it is asked: that tracker's
\* id stays live, bound to the detection's box, and the detection takes no new
\* id.
C4_MatchKeepsId ==
    (/\ lastOp.op = "ingest"
     /\ Len(log) >= 1
     /\ Cardinality({k \in 1..Len(d0) : IoUAboveHalf(d0[k].pos, lastOp.lbox[1])}) = 1
     /\ \A sc \in ProbeScores(log[1]) : sc > 7)
    =>
        LET k == CHOOSE m \in 1..Len(d0) : IoUAboveHalf(d0[m].pos, lastOp.lbox[1])
        IN  /\ log[1].kind = "match"
            /\ log[1].id = d0[k].tid
            /\ raised = "none" =>
                   \E a \in 1..Len(d) : /\ d[a].tid = d0[k].tid
                                        /\ d[a].pos = ToPos(lastOp.lbox[1])
            /\ Len(log) >= 2 => log[2].i0 = log[1].i0
            /\ Len(log) = 1 => i = log[1].i0

\* C6: a tracker that update propagated to a box entirely outside the frame
\* is no longer live when that update call is over, whatever its quality.
C6_RetiredOnExit ==
    lastOp.op = "update" =>
        \A j \in 1..Len(log) :
            OutsideFrame(log[j].pos) => log[j].tid \notin KeySet(d)

\* C7: update, called with a frame no live tracker has seen, completes
\* without error, visits every live tracker and removes exactly those whose
\* quality is below 7 or whose box lies outside the frame.
C7_UpdateRemovesIff ==
    (lastOp.op = "update" /\ FreshFrame) =>
        /\ raised = "none"
        /\ Len(log) = Len(d0)
        /\ \A j \in 1..Len(log) :
               (log[j].tid \notin KeySet(d))
                   <=> (log[j].q < 7 \/ OutsideFrame(log[j].pos))

\* C8: td(frame) on a fresh frame of index k returns, having run the detector
\* exactly when k mod detection_period # 0; with period 1 and a registry that
\* was empty the emitted list is empty.
C8_Cadence ==
    (lastOp.op = "call" /\ FreshFrame) =>
        /\ raised = "none"
        /\ lastOp.detected <=> (lastOp.k % detection_period # 0)
        /\ (detection_period = 1 /\ d0 = <<>>) => lret = << <<>> >>

\* C9: td(frame) on a fresh frame emits one (box, id) pair per live tracker:
\* the emitted ids are the live ids, none twice, each with its tracker's
\* current box.
C9_EmitLive ==
    (lastOp.op = "call" /\ FreshFrame) =>
        /\ Len(lret) = 1
        /\ Len(lret[1]) = Len(d)
        /\ {lret[1][k].faceid : k \in 1..Len(lret[1])} = KeySet(d)
        /\ \A a, b \in 1..Len(lret[1]) :
               a # b => lret[1][a].faceid # lret[1][b].faceid
        /\ \A k \in 1..Len(lret[1]) :
               \E a \in 1..Len(d) : /\ d[a].tid = lret[1][k].faceid
                                    /\ d[a].pos = lret[1][k].bb

\* the boxes of the last iou evaluation are both non-empty
ProperBoxes == ~IsEmpty(pf.a) /\ ~IsEmpty(pf.b)

\* C11: for non-empty boxes iou is intersection / (areaA + areaB -
\* intersection): 0 for boxes that do not overlap, 1 for identical boxes, the
\* same in both directions and never above 1.
C11_IoUCorrect ==
    (pf.done /\ ProperBoxes) =>
        LET inter == RectArea(Intersect(pf.a, pf.b))
            union == RectArea(pf.a) + RectArea(pf.b) - inter
        IN  /\ pf.ab.raised = "none"
            /\ pf.ab.num * union = inter * pf.ab.den
            /\ inter = 0 => pf.ab.num = 0
            /\ pf.a = pf.b => pf.ab.num = pf.ab.den
            /\ pf.ab.num * pf.ba.den = pf.ba.num * pf.ab.den
            /\ 0 <= pf.ab.num /\ pf.ab.num <= pf.ab.den

\* C13: when the tracker's box and the candidate box are both empty (so is
\* their intersection), iou raises nothing and is 0.
C13_IoUZeroArea ==
    (pf.done /\ RectArea(pf.a) = 0 /\ RectArea(pf.b) = 0) =>
        /\ pf.ab.raised = "none"
        /\ pf.ab.num = 0

\* C12: update with the frame a tracker saw last (the frame it was created on
\* included) returns the stored quality without invoking dlib and leaves the
\* box alone; in particular it does not fail.
C12_UpdateMemoized ==
    lastOp.op = "update" =>
        /\ raised # "AttributeError"
        /\ \A j \in 1..Len(log) :
               LET tr0 == DictGet(d0, log[j].tid)
               IN  tr0.last_frame = lastOp.frame =>
                       /\ ~log[j].called
                       /\ log[j].pos = tr0.pos
                       /\ <<log[j].q>> = tr0.update_val

\* the best candidate score of a detection of the last pass, 0 for an empty pool
BestScore(e) ==
    IF e.rmscore = <<>> THEN 0 ELSE e.rmscore[Argmax(e.rmscore)]

\* the value of self.i once detection j of the last pass was processed
IAfter(j) == IF j < Len(log) THEN log[j + 1].i0 ELSE i

\* C14: a detection spawns whenever the pool is empty or the best score is at
\* most 7; a spawn takes id = self.i and advances self.i by exactly 1, a match
\* leaves it alone, so self.i grows over the pass by the number of spawns.
C14_SpawnRule ==
    lastOp.op = "ingest" =>
        /\ \A j \in 1..Len(log) :
               /\ (log[j].pool = <<>> \/ BestScore(log[j]) <= 7)
                      => log[j].kind = "spawn"
               /\ log[j].kind = "spawn"
                      => (log[j].id = log[j].i0 /\ IAfter(j) = log[j].i0 + 1)
               /\ log[j].kind = "match" => IAfter(j) = log[j].i0
        /\ Len(log) >= 1 => i = log[1].i0 + Cardinality(Spawns(log))

\* C14 witness: a pass of two detections, the first evaluated against a
\* non-empty pool with best score 0, both spawning, self.i grown by 2
C14_Witness ==
    /\ lastOp.op = "ingest"
    /\ raised = "none"
    /\ Len(log) = 2
    /\ Len(log[1].pool) >= 1
    /\ BestScore(log[1]) = 0
    /\ log[1].kind = "spawn" /\ log[2].kind = "spawn"
    /\ i = log[1].i0 + 2

\* C15: when ingest_detection(frame, lbox) returns there are as many live
\* trackers as boxes: detection j is bound to the tracker of the id it was
\* given, that tracker sits at the detection's box, and no two detections
\* have the same id.
C15_OneTrackerPerBox ==
    (lastOp.op = "ingest" /\ raised = "none") =>
        /\ Len(d) = Len(lastOp.lbox)
        /\ Len(log) = Len(lastOp.lbox)
        /\ \A j \in 1..Len(log) :
               Cardinality({a \in 1..Len(d) : d[a].tid = log[j].id
                                              /\ d[a].pos = ToPos(lastOp.lbox[j])}) = 1
        /\ \A j, m \in 1..Len(log) : j # m => log[j].id # log[m].id

\* C15 witness: two trackers were live, a pass with one box returned and one
\* tracker is live, at that box
C15_Witness ==
    /\ lastOp.op = "ingest"
    /\ raised = "none"
    /\ Len(d0) = 2
    /\ Len(lastOp.lbox) = 1
    /\ Len(d) = 1
    /\ d[1].pos = ToPos(lastOp.lbox[1])

\* C16: a tracker that has IoU above 0.5 with the first detection of a pass
\* and is not the one matched to it has been rebound to that detection's box
\* when the second detection is evaluated.
C16_RejectedProbeRebinds ==
    (lastOp.op = "ingest" /\ Len(log) >= 2) =>
        \A k \in 1..Len(d0) :
            (/\ IoUAboveHalf(d0[k].pos, lastOp.lbox[1])
             /\ ~(log[1].kind = "match" /\ log[1].id = d0[k].tid))
            => log[2].before[k].pos = ToPos(lastOp.lbox[1])

\* C17: in a pass the probe is invoked only on trackers that are in the pool
\* and have IoU above 0.5 with the detection; a pool tracker with IoU at most
\* 0.5 scores 0; a tracker matched earlier in the pass is not probed again;
\* every tracker that is not probed is left exactly as it was, and a probed
\* one differs only in its position, the detection's box.
C17_ProbeOnlyOnOverlap ==
    lastOp.op = "ingest" =>
        \A j \in 1..Len(log) :
            LET e == log[j]
                Probed == {e.probed[n] : n \in 1..Len(e.probed)}
                Pool == {e.pool[n] : n \in 1..Len(e.pool)}
            IN  /\ Probed \subseteq Pool
                /\ \A m \in 1..(j - 1) :
                       log[m].kind = "match" => log[m].id \notin Probed
                /\ Len(e.after) = Len(e.before)
                /\ \A k \in 1..Len(e.before) :
                       /\ e.before[k].tid \in Probed
                              => /\ IoUAboveHalf(e.before[k].pos, e.bb)
                                 /\ e.after[k] = [e.before[k] EXCEPT !.pos = ToPos(e.bb)]
                       /\ e.before[k].tid \notin Probed => e.after[k] = e.before[k]
                /\ \A n \in 1..Len(e.pool) :
                       ~IoUAboveHalf(DictGet(e.before, e.pool[n]).pos, e.bb)
                           => e.rmscore[n] = 0

\* C17 witness: a detection was evaluated against a pool of two trackers it
\* does not intersect: both score 0 and both are unchanged
C17_Witness ==
    /\ lastOp.op = "ingest"
    /\ \E j \in 1..Len(log) :
        /\ Len(log[j].pool) = 2
        /\ ZeroIoU(log[j])
        /\ log[j].rmscore = <<0, 0>>
        /\ log[j].after = log[j].before

\* C18: a call on frame number k runs its steps in this order: propagate all
\* trackers; on a detection frame only, run the detector and reconcile; emit
\* the live (box, id) pairs; advance the frame counter by one.
C18_StepOrder ==
    (lastOp.op = "call" /\ FreshFrame) =>
        /\ raised = "none"
        /\ lastOp.steps = IF lastOp.k % detection_period # 0
                          THEN <<"update", "detect", "ingest", "emit", "count">>
                          ELSE <<"update", "emit", "count">>
        /\ Len(lret) = 1
        /\ iframe = lastOp.k + 1

\* s is t with some entries left out, the order kept
RECURSIVE IsSubSeq(_, _)
IsSubSeq(s, t) ==
    IF s = <<>> THEN TRUE
    ELSE IF t = <<>> THEN FALSE
    ELSE IF Head(s) = Head(t) THEN IsSubSeq(Tail(s), Tail(t))
    ELSE IsSubSeq(s, Tail(t))

\* C19: TrackerList.update(frame) never adds a tracker and never changes
\* self.i: the keys of self.d after it are keys it had before, in the same
\* order, each held once, and no id was handed out; so a call that returns on
\* a non-detection frame emits only ids that were live when it was made.
C19_UpdateNeverAdds ==
    [][/\ lastOp'.op = "update"
            => /\ i' = i
               /\ spawned' = spawned
               /\ KeySet(d') \subseteq KeySet(d)
               /\ Len(d') <= Len(d)
               /\ IsSubSeq(Keys(d'), Keys(d))
       /\ (lastOp'.op = "call" /\ ~lastOp'.detected /\ raised' = "none")
            => /\ i' = i
               /\ \A n \in 1..Len(lret'[1]) : lret'[1][n].faceid \in KeySet(d)
      ]_vars

\* C19 witness: update was called on two trackers, dropped the first and left
\* the second, under its id
C19_Witness ==
    /\ lastOp.op = "update"
    /\ Len(d0) = 2
    /\ Len(d) = 1
    /\ d[1].tid = d0[2].tid

\* the images handed to the classifier, in the order of the calls
RECURSIVE Flatten(_)
Flatten(bs) == IF bs = <<>> THEN <<>> ELSE Head(bs) \o Flatten(Tail(bs))

\* every image appended so far has been classified once, in the order it was
\* appended, or (while the loop runs) still waits in lbatch_img; every
\* classifier call received between 1 and batch_len images
BatchesInOrder ==
    /\ \A k \in 1..Len(pl.batches) :
           1 <= Len(pl.batches[k]) /\ Len(pl.batches[k]) <= batch_len
    /\ Flatten(pl.batches) \o (IF pl.pc = "loop" THEN pl.lbatch_img ELSE <<>>)
           = NewImages(0, Len(pl.linfo))

\* C20 as stated: in both pipelines every image appended to lbatch_img is
\* classified exactly once and in order, each classifier call receives
\* between 1 and batch_len images, and once the final flush has run the
\* number of classified images is the number of info records and lbatch_img
\* is empty.
C20_BatchingAsStated ==
    pl.kind \in Pipelines =>
        /\ BatchesInOrder
        /\ pl.pc = "done"
               => /\ Len(Flatten(pl.batches)) = Len(pl.linfo)
                  /\ pl.lbatch_img = <<>>

\* C20 amended: as above, except that the final flush does not empty
\* lbatch_img: once it has run the list still holds the images of the last
\* classifier call, and is empty only if no image was ever appended.
C20_Batching ==
    pl.kind \in Pipelines =>
        /\ BatchesInOrder
        /\ pl.pc = "done"
               => /\ Len(Flatten(pl.batches)) = Len(pl.linfo)
                  /\ pl.lbatch_img = IF pl.batches = <<>> THEN <<>>
                                     ELSE pl.batches[Len(pl.batches)]

\* C20 witness: a GenderVideo run is over, the loop cut at least one full
\* batch and the final flush classified the rest
C20_Witness ==
    /\ pl.kind = "GenderVideo"
    /\ pl.pc = "done"
    /\ Len(pl.linfo) > batch_len
    /\ Len(pl.batches) >= 2
    /\ Len(pl.batches[1]) = batch_len
    /\ Len(pl.lbatch_img) >= 1

====
